---- MODULE Spec2Model ----
(***************************************************************************)
(* Model of sql_to_csv.py: the statement assembler and table sink router   *)
(* of convert_sql_to_csv, and the pure helpers parse_create_table,         *)
(* get_column_names, parse_insert_values and _clean_value.                 *)
(*                                                                         *)
(* Text is modelled as a sequence of one-character strings, so that the    *)
(* scanners, splits and substitutions of the source are computed character *)
(* by character.                                                           *)
(***************************************************************************)
EXTENDS Integers, Sequences, FiniteSets, TLC

VARIABLES
    pc,             \* position of convert_sql_to_csv / of the called helper
    nread,          \* number of input lines consumed by the for loop
    buffer,         \* convert_sql_to_csv: buffer
    full_statement, \* convert_sql_to_csv: full_statement (None before the first)
    current_table,  \* convert_sql_to_csv: current_table
    columns,        \* convert_sql_to_csv: columns
    csv_file,       \* convert_sql_to_csv: csv_file (NoFile or a file handle)
    csv_writer,     \* convert_sql_to_csv: csv_writer (NoFile or the handle it wraps)
    open_files,     \* file handles opened by open() and not yet closed
    nopened,        \* number of open() calls that succeeded (handle identity)
    files,          \* the output directory: file name -> sequence of rows
    arg,            \* argument of the helper under test
    ret             \* value returned by the helper under test

vars == <<pc, nread, buffer, full_statement, current_table, columns, csv_file,
          csv_writer, open_files, nopened, files, arg, ret>>

\* Python's None where a text is expected: a sequence no text is equal to
None == <<"None">>

\* None where a character is expected (quote_char)
NoChar == "None"

\* None where a file handle is expected (csv_file, csv_writer)
NoFile == [name |-> <<>>, id |-> 0]

\* ---------------------------------------------------------------- bounds

MaxLines == 5
MaxValLen == 4
MaxTuples == 2
MaxFields == 2
MaxFragments == 3

\* ------------------------------------------------- characters and strings

LowerChars == <<"a","b","c","d","e","f","g","h","i","j","k","l","m",
                "n","o","p","q","r","s","t","u","v","w","x","y","z">>
UpperChars == <<"A","B","C","D","E","F","G","H","I","J","K","L","M",
                "N","O","P","Q","R","S","T","U","V","W","X","Y","Z">>
DigitChars == {"0","1","2","3","4","5","6","7","8","9"}

Range(s) == { s[i] : i \in DOMAIN s }

\* str.isspace and the class \s, for the characters the inputs use
SpaceChars == {" ", "\t", "\n"}
IsSpace(c) == c \in SpaceChars

\* the regular expression class \w
WordChars == Range(LowerChars) \cup Range(UpperChars) \cup DigitChars \cup {"_"}
IsWord(c) == c \in WordChars

UpperChar(c) ==
    IF c \in Range(LowerChars)
    THEN UpperChars[CHOOSE i \in DOMAIN LowerChars : LowerChars[i] = c]
    ELSE c

\* str.upper
Upper(s) == [i \in DOMAIN s |-> UpperChar(s[i])]

\* str.startswith / str.endswith
StartsWith(s, p) == Len(s) >= Len(p) /\ SubSeq(s, 1, Len(p)) = p
EndsWith(s, p) == Len(s) >= Len(p) /\ SubSeq(s, Len(s) - Len(p) + 1, Len(s)) = p

\* the positions at which p occurs in s
Occurrences(s, p) ==
    { i \in 1..(Len(s) - Len(p) + 1) : SubSeq(s, i, i + Len(p) - 1) = p }

\* the operator "p in s" on strings
Contains(s, p) == Occurrences(s, p) /= {}

Min(S) == CHOOSE x \in S : \A y \in S : x <= y
Max(S) == CHOOSE x \in S : \A y \in S : x >= y

\* str.strip(): drop leading and trailing whitespace
Strip(s) ==
    LET keep == { i \in DOMAIN s : ~IsSpace(s[i]) }
    IN  IF keep = {} THEN <<>> ELSE SubSeq(s, Min(keep), Max(keep))

\* str.rstrip(chars): drop every trailing character that is in chars
RStrip(s, chars) ==
    LET keep == { i \in DOMAIN s : s[i] \notin chars }
    IN  IF keep = {} THEN <<>> ELSE SubSeq(s, 1, Max(keep))

\* s.split(sep, 1)[-1]: the text after the first occurrence of sep, or s itself
SplitOnceLast(s, sep) ==
    IF Contains(s, sep)
    THEN SubSeq(s, Min(Occurrences(s, sep)) + Len(sep), Len(s))
    ELSE s

\* s.split(c) on a one-character separator: the list of fragments
RECURSIVE SplitFrom(_, _, _, _)
SplitFrom(s, c, i, cur) ==
    IF i > Len(s) THEN <<cur>>
    ELSE IF s[i] = c THEN <<cur>> \o SplitFrom(s, c, i + 1, <<>>)
    ELSE SplitFrom(s, c, i + 1, Append(cur, s[i]))

Split(s, c) == SplitFrom(s, c, 1, <<>>)

\* str.replace(old, new): left to right, non-overlapping occurrences
RECURSIVE ReplaceFrom(_, _, _, _)
ReplaceFrom(s, old, new, i) ==
    IF i > Len(s) THEN <<>>
    ELSE IF i + Len(old) - 1 <= Len(s) /\ SubSeq(s, i, i + Len(old) - 1) = old
         THEN new \o ReplaceFrom(s, old, new, i + Len(old))
         ELSE <<s[i]>> \o ReplaceFrom(s, old, new, i + 1)

Replace(s, old, new) == ReplaceFrom(s, old, new, 1)

\* the end of the longest run of characters of the class chars that starts at
\* i (i - 1 when s[i] is not in the class): a greedy character-class repetition
RunEnd(s, i, chars) ==
    LET stops == { j \in i..Len(s) : s[j] \notin chars }
    IN  IF stops = {} THEN Len(s) ELSE Min(stops) - 1

\* ------------------------------------------------------ string constants

S_CREATE_TABLE == <<"C","R","E","A","T","E"," ","T","A","B","L","E">>
S_INSERT_INTO == <<"I","N","S","E","R","T"," ","I","N","T","O">>
S_REPLACE_INTO == <<"R","E","P","L","A","C","E"," ","I","N","T","O">>
S_VALUES == <<"V","A","L","U","E","S">>
S_values == <<"v","a","l","u","e","s">>
S_value == <<"v","a","l","u","e">>
S_NULL == <<"N","U","L","L">>
S_SET == <<"S","E","T"," ">>
BackSlash == "\\"
SQuote == "'"
DQuote == "\""
\* the backquote character (it cannot be written in a TLA+ string literal)
BackTick == "BACKTICK"

\* ------------------------------------------------------ parse_create_table

\* the match of  \s+[`"]?(\w+)  from position j on: the captured name, or None
NameAfter(line, j) ==
    LET se == RunEnd(line, j, SpaceChars)
        k  == IF se + 1 <= Len(line) /\ line[se + 1] \in {BackTick, DQuote}
              THEN se + 2 ELSE se + 1
        we == RunEnd(line, k, WordChars)
    IN  IF se >= j /\ we >= k THEN SubSeq(line, k, we) ELSE None

\* re.search(r'CREATE TABLE\s+[`"]?(\w+)[`"]?', line, re.IGNORECASE):
\* group 1 of the leftmost match, None when there is no match
parse_create_table(line) ==
    LET hits == { i \in Occurrences(Upper(line), S_CREATE_TABLE) :
                    NameAfter(line, i + Len(S_CREATE_TABLE)) /= None }
    IN  IF hits = {} THEN None
        ELSE NameAfter(line, Min(hits) + Len(S_CREATE_TABLE))

\* -------------------------------------------------------- get_column_names

Keywords == { <<"C","O","N","S","T","R","A","I","N","T">>,
              <<"P","R","I","M","A","R","Y"," ","K","E","Y">>,
              <<"F","O","R","E","I","G","N"," ","K","E","Y">>,
              <<"K","E","Y">>,
              <<"I","N","D","E","X">>,
              <<"U","N","I","Q","U","E">> }

\* any(keyword in column_def.upper() for keyword in [...])
IsConstraint(column_def) ==
    \E kw \in Keywords : Contains(Upper(column_def), kw)

\* re.search(r'^[`"]?(\w+)[`"]?\s+\w+', column_def): group 1, or None
ColumnMatch(column_def) ==
    LET k  == IF Len(column_def) >= 1 /\ column_def[1] \in {BackTick, DQuote}
              THEN 2 ELSE 1
        we == RunEnd(column_def, k, WordChars)
        m  == IF we + 1 <= Len(column_def) /\ column_def[we + 1] \in {BackTick, DQuote}
              THEN we + 2 ELSE we + 1
        se == RunEnd(column_def, m, SpaceChars)
    IN  IF we >= k /\ se >= m /\ se + 1 <= Len(column_def) /\ IsWord(column_def[se + 1])
        THEN SubSeq(column_def, k, we)
        ELSE None

\* re.search(r'\((.*)\)', line, re.DOTALL): the text between the first '('
\* and the last ')', or None when no ')' follows the first '('
ParenSpan(line) ==
    LET opens  == { i \in DOMAIN line : line[i] = "(" }
        closes == { i \in DOMAIN line : line[i] = ")" }
    IN  IF opens = {} \/ closes = {} \/ Max(closes) < Min(opens) THEN None
        ELSE SubSeq(line, Min(opens) + 1, Max(closes) - 1)

\* the fragments the for loop iterates over: split(',') then strip()
ColumnDefs(line) ==
    IF ParenSpan(line) = None THEN <<>>
    ELSE LET parts == Split(ParenSpan(line), ",")
         IN  [i \in DOMAIN parts |-> Strip(parts[i])]

\* a loop that stops at the first constraint instead of skipping it
RECURSIVE ColumnsOfBreak(_, _)
ColumnsOfBreak(defs, i) ==
    IF i > Len(defs) \/ IsConstraint(defs[i]) THEN <<>>
    ELSE IF ColumnMatch(defs[i]) = None THEN ColumnsOfBreak(defs, i + 1)
    ELSE <<ColumnMatch(defs[i])>> \o ColumnsOfBreak(defs, i + 1)

RECURSIVE ColumnsOf(_, _)
ColumnsOf(defs, i) ==
    IF i > Len(defs) THEN <<>>
    ELSE IF IsConstraint(defs[i]) \/ ColumnMatch(defs[i]) = None
         THEN ColumnsOf(defs, i + 1)
         ELSE <<ColumnMatch(defs[i])>> \o ColumnsOf(defs, i + 1)

get_column_names(line) == ColumnsOf(ColumnDefs(line), 1)

\* ------------------------------------------------------------ _clean_value

\* the first and last character removed without looking at them
StripQuotesAlways(val) ==
    IF Len(val) >= 2 THEN SubSeq(val, 2, Len(val) - 1) ELSE val

StripQuotes(val) ==
    IF Len(val) >= 1 /\ (   (val[1] = DQuote /\ val[Len(val)] = DQuote)
                         \/ (val[1] = SQuote /\ val[Len(val)] = SQuote))
    THEN SubSeq(val, 2, Len(val) - 1)
    ELSE val

\* val.replace('\\\\', '\\').replace("\\'", "'").replace('\\"', '"')
Unescape(val) ==
    Replace(Replace(Replace(val, <<BackSlash, BackSlash>>, <<BackSlash>>),
                    <<BackSlash, SQuote>>, <<SQuote>>),
            <<BackSlash, DQuote>>, <<DQuote>>)

_clean_value(val) ==
    IF Upper(val) = S_NULL THEN <<>>
    ELSE Unescape(StripQuotes(val))

\* ----------------------------------------------------- parse_insert_values

\* the index of the ')' that closes a match of  \(((?:[^()]|\([^()]*\))*)\)
\* whose body is being scanned at position j, or 0 when the match fails.
\* The alternatives of the pattern start with different characters, so the
\* greedy match is the only one: an ordinary character is consumed, a '('
\* must open an inner group with no parenthesis inside, a ')' ends the match.
RECURSIVE GroupEnd(_, _)
GroupEnd(s, j) ==
    IF j > Len(s) THEN 0
    ELSE IF s[j] = ")" THEN j
    ELSE IF s[j] = "("
         THEN LET parens == { k \in (j + 1)..Len(s) : s[k] \in {"(", ")"} }
              IN  IF parens /= {} /\ s[Min(parens)] = ")"
                  THEN GroupEnd(s, Min(parens) + 1)
                  ELSE 0
    ELSE GroupEnd(s, j + 1)

\* re.findall(r'\(((?:[^()]|\([^()]*\))*)\)', values_part): the captured
\* contents of the non-overlapping matches, left to right
RECURSIVE FindAllFrom(_, _)
FindAllFrom(s, i) ==
    IF i > Len(s) THEN <<>>
    ELSE IF s[i] = "(" /\ GroupEnd(s, i + 1) /= 0
         THEN <<SubSeq(s, i + 1, GroupEnd(s, i + 1) - 1)>>
              \o FindAllFrom(s, GroupEnd(s, i + 1) + 1)
         ELSE FindAllFrom(s, i + 1)

FindAll(values_part) == FindAllFrom(values_part, 1)

\* line.split('VALUES', 1)[-1].split('value', 1)[-1].strip()
ValuesPart(line) == Strip(SplitOnceLast(SplitOnceLast(line, S_VALUES), S_value))

\* the state of the character scan at the top of the for loop
ScanInit == [row |-> <<>>, current |-> <<>>, in_quotes |-> FALSE,
             quote_char |-> NoChar, paren_level |-> 0]

\* a scan in which either quote character closes a quoted span
ScanCharAnyQuoteCloses(st, char) ==
    IF char \in {DQuote, SQuote}
    THEN IF ~st.in_quotes
         THEN [st EXCEPT !.in_quotes = TRUE, !.quote_char = char,
                         !.current = Append(@, char)]
         ELSE [st EXCEPT !.in_quotes = FALSE, !.quote_char = NoChar,
                         !.current = Append(@, char)]
    ELSE IF char = "(" /\ ~st.in_quotes
    THEN [st EXCEPT !.paren_level = @ + 1, !.current = Append(@, char)]
    ELSE IF char = ")" /\ ~st.in_quotes
    THEN [st EXCEPT !.paren_level = @ - 1, !.current = Append(@, char)]
    ELSE IF char = "," /\ ~st.in_quotes /\ st.paren_level = 0
    THEN [st EXCEPT !.row = Append(@, Strip(st.current)), !.current = <<>>]
    ELSE [st EXCEPT !.current = Append(@, char)]

\* one iteration of  for char in value_str + ','
ScanChar(st, char) ==
    IF char \in {DQuote, SQuote}
    THEN IF ~st.in_quotes
         THEN [st EXCEPT !.in_quotes = TRUE, !.quote_char = char,
                         !.current = Append(@, char)]
         ELSE IF char = st.quote_char
         THEN [st EXCEPT !.in_quotes = FALSE, !.quote_char = NoChar,
                         !.current = Append(@, char)]
         ELSE [st EXCEPT !.current = Append(@, char)]
    ELSE IF char = "(" /\ ~st.in_quotes
    THEN [st EXCEPT !.paren_level = @ + 1, !.current = Append(@, char)]
    ELSE IF char = ")" /\ ~st.in_quotes
    THEN [st EXCEPT !.paren_level = @ - 1, !.current = Append(@, char)]
    ELSE IF char = "," /\ ~st.in_quotes /\ st.paren_level = 0
    THEN [st EXCEPT !.row = Append(@, Strip(st.current)), !.current = <<>>]
    ELSE [st EXCEPT !.current = Append(@, char)]

RECURSIVE ScanFrom(_, _, _)
ScanFrom(st, s, i) ==
    IF i > Len(s) THEN st ELSE ScanFrom(ScanChar(st, s[i]), s, i + 1)

\* the scan of one row candidate, with the trailing comma appended
Scan(value_str) == ScanFrom(ScanInit, value_str \o <<",">>, 1)

\* a filter that tests the cleaned value instead of the raw field
RECURSIVE CleanRowDropCleaned(_, _)
CleanRowDropCleaned(row, i) ==
    IF i > Len(row) THEN <<>>
    ELSE IF _clean_value(Strip(row[i])) = <<>> THEN CleanRowDropCleaned(row, i + 1)
    ELSE <<_clean_value(Strip(row[i]))>> \o CleanRowDropCleaned(row, i + 1)

\* [_clean_value(val.strip()) for val in row if val.strip()]
RECURSIVE CleanRow(_, _)
CleanRow(row, i) ==
    IF i > Len(row) THEN <<>>
    ELSE IF Strip(row[i]) = <<>> THEN CleanRow(row, i + 1)
    ELSE <<_clean_value(Strip(row[i]))>> \o CleanRow(row, i + 1)

\* the body of  for value_str in values_match
RECURSIVE RowsOf(_, _)
RowsOf(values_match, i) ==
    IF i > Len(values_match) THEN <<>>
    ELSE LET row == CleanRow(Scan(values_match[i]).row, 1)
         IN  IF row /= <<>> THEN <<row>> \o RowsOf(values_match, i + 1)
             ELSE RowsOf(values_match, i + 1)

parse_insert_values(line) ==
    IF ~(Contains(line, S_VALUES) \/ Contains(line, S_values)) THEN <<>>
    ELSE RowsOf(FindAll(ValuesPart(line)), 1)

\* ------------------------------------------------------ convert_sql_to_csv

\* the input lines the for loop may read (each without its line terminator)
L_create_t == <<"C","R","E","A","T","E"," ","T","A","B","L","E"," ","t"," ","(","a"," ","I","N","T",")",";">>
    \* CREATE TABLE t (a INT);
L_create_u == <<"C","R","E","A","T","E"," ","T","A","B","L","E"," ","u"," ","(","b"," ","I","N","T",","," ","c"," ","I","N","T",")",";">>
    \* CREATE TABLE u (b INT, c INT);
L_create_v == <<"C","R","E","A","T","E"," ","T","A","B","L","E"," ","v"," ","(","K","E","Y"," ","k",")",";">>
    \* CREATE TABLE v (KEY k);
L_create_noname == <<"C","R","E","A","T","E"," ","T","A","B","L","E"," ","(","a"," ","I","N","T",")",";">>
    \* CREATE TABLE (a INT);
L_insert_t == <<"I","N","S","E","R","T"," ","I","N","T","O"," ","t"," ","V","A","L","U","E","S"," ","(","1",")",",","(","2",")",";">>
    \* INSERT INTO t VALUES (1),(2);
L_insert_u_head == <<"I","N","S","E","R","T"," ","I","N","T","O"," ","u">>
    \* INSERT INTO u
L_values_tail == <<"V","A","L","U","E","S"," ","(","'","x","'",")",";">>
    \* VALUES ('x');
L_comment == <<" ","-","-"," ","c",";">>
    \*  -- c;

L_blank == <<" ">>
    \* a line of whitespace

L_block_comment == <<"/","*","c","*","/",";">>
    \* /*c*/;

L_set == <<"S","E","T"," ","x",";">>
    \* SET x;

Lines == { L_create_t, L_create_u, L_create_v, L_create_noname, L_insert_t, L_insert_u_head, L_values_tail, L_comment, L_blank, L_block_comment, L_set }

\* exits of convert_sql_to_csv by an exception
Errors == {"OSError", "ValueError", "AttributeError"}

\* line 126: the lines the loop skips
Skipped(line) ==
    \/ line = <<>>
    \/ StartsWith(line, <<"-", "-">>)
    \/ StartsWith(line, <<"/", "*">>)
    \/ StartsWith(line, S_SET)

\* line 138
IsCreate(stmt) == StartsWith(Upper(stmt), S_CREATE_TABLE)

\* line 152
IsInsert(stmt) ==
    StartsWith(Upper(stmt), S_INSERT_INTO) \/ StartsWith(Upper(stmt), S_REPLACE_INTO)

\* the guard without its csv_writer test
InsertGuardNoWriter(table, writer) == table /= None

\* line 153: "and current_table and csv_writer"
InsertGuard(table, writer) == table /= None /\ writer /= NoFile

\* a close() that leaves the handle open
FileCloseLeak(opened, f) == opened

\* file.close() on handle f (NoFile: the "if csv_file" test failed): closing a
\* closed handle changes nothing
FileClose(opened, f) == opened \ {f}

\* a writer that is created once and never rebound to the new file
KeepWriter(old_writer, handle) == IF old_writer = NoFile THEN handle ELSE old_writer

\* line 148: csv_writer = csv.writer(csv_file)
NewWriter(old_writer, handle) == handle

\* open(name, 'a'): an existing file keeps its content
TruncateAppend(fs, name) ==
    [n \in DOMAIN fs \cup {name} |-> IF n \in DOMAIN fs THEN fs[n] ELSE <<>>]

\* open(name, 'w'): the file is created or truncated
Truncate(fs, name) ==
    [n \in DOMAIN fs \cup {name} |-> IF n = name THEN <<>> ELSE fs[n]]

\* writerow / writerows on the file called name
WriteRows(fs, name, rows) == [fs EXCEPT ![name] = @ \o rows]

Init ==
    /\ pc = "loop"
    /\ nread = 0
    /\ buffer = <<>>
    /\ full_statement = None
    /\ current_table = None
    /\ columns = <<>>
    /\ csv_file = NoFile
    /\ csv_writer = NoFile
    /\ open_files = {}
    /\ nopened = 0
    /\ files = <<>>
    /\ arg = None
    /\ ret = None

\* a skipped line that also discards what was buffered
NextLineSkipResets(raw) ==
    /\ pc = "loop"
    /\ nread < MaxLines
    /\ nread' = nread + 1
    /\ LET line == Strip(raw)
           buf  == buffer \o <<" ">> \o line
       IN  IF Skipped(line)
           THEN /\ buffer' = <<>>
                /\ UNCHANGED <<pc, full_statement>>
           ELSE IF EndsWith(Strip(buf), <<";">>)
           THEN /\ full_statement' = RStrip(Strip(buf), {";"})
                /\ buffer' = <<>>
                /\ pc' = "stmt"
           ELSE /\ buffer' = buf
                /\ UNCHANGED <<pc, full_statement>>
    /\ UNCHANGED <<current_table, columns, csv_file, csv_writer, open_files,
                   nopened, files, arg, ret>>

\* lines 122-135: one iteration of the for loop up to the dispatch
NextLine(raw) ==
    /\ pc = "loop"
    /\ nread < MaxLines
    /\ nread' = nread + 1
    /\ LET line == Strip(raw)
           buf  == buffer \o <<" ">> \o line
       IN  IF Skipped(line)
           THEN UNCHANGED <<pc, buffer, full_statement>>
           ELSE IF EndsWith(Strip(buf), <<";">>)
           THEN /\ full_statement' = RStrip(Strip(buf), {";"})
                /\ buffer' = <<>>
                /\ pc' = "stmt"
           ELSE /\ buffer' = buf
                /\ UNCHANGED <<pc, full_statement>>
    /\ UNCHANGED <<current_table, columns, csv_file, csv_writer, open_files,
                   nopened, files, arg, ret>>

\* lines 138-140: a CREATE TABLE statement closes the open file first
CloseOld ==
    /\ pc = "stmt"
    /\ IsCreate(full_statement)
    /\ open_files' = FileClose(open_files, csv_file)
    /\ pc' = "create"
    /\ UNCHANGED <<nread, buffer, full_statement, current_table, columns,
                   csv_file, csv_writer, nopened, files, arg, ret>>

\* lines 142-149: the schema is extracted and, when a name and columns were
\* found, the file is opened and the header written; open() and writerow()
\* may raise
OpenNew ==
    /\ pc = "create"
    /\ current_table' = parse_create_table(full_statement)
    /\ columns' = get_column_names(full_statement)
    /\ IF current_table' /= None /\ columns' /= <<>>
       THEN \E outcome \in {"ok", "open fails", "write fails"} :
              LET handle == [name |-> current_table', id |-> nopened + 1]
              IN  IF outcome = "open fails"
                  THEN /\ pc' = "OSError"
                       /\ UNCHANGED <<csv_file, csv_writer, open_files, nopened, files>>
                  ELSE /\ csv_file' = handle
                       /\ csv_writer' = NewWriter(csv_writer, handle)
                       /\ open_files' = open_files \cup {handle}
                       /\ nopened' = nopened + 1
                       /\ IF outcome = "write fails"
                          THEN /\ files' = Truncate(files, handle.name)
                               /\ pc' = "OSError"
                          ELSE /\ files' = WriteRows(Truncate(files, handle.name),
                                                     handle.name, <<columns'>>)
                               /\ pc' = "loop"
       ELSE /\ pc' = "loop"
            /\ UNCHANGED <<csv_file, csv_writer, open_files, nopened, files>>
    /\ UNCHANGED <<nread, buffer, full_statement, arg, ret>>

\* lines 152-155: the rows of an INSERT / REPLACE statement are written through
\* csv_writer; writing to a closed file raises ValueError at the first row,
\* and a write to an open file may raise after any number of rows
InsertRows ==
    /\ pc = "stmt"
    /\ ~IsCreate(full_statement)
    /\ IsInsert(full_statement)
    /\ InsertGuard(current_table, csv_writer)
    /\ LET rows == parse_insert_values(full_statement)
       IN  IF csv_writer = NoFile
           THEN /\ pc' = "AttributeError"
                /\ UNCHANGED files
           ELSE IF rows = <<>>
           THEN /\ pc' = "loop"
                /\ UNCHANGED files
           ELSE IF csv_writer \notin open_files
           THEN /\ pc' = "ValueError"
                /\ UNCHANGED files
           ELSE \E written \in 0..Len(rows) :
                  /\ files' = WriteRows(files, csv_writer.name, SubSeq(rows, 1, written))
                  /\ pc' = IF written = Len(rows) THEN "loop" ELSE "OSError"
    /\ UNCHANGED <<nread, buffer, full_statement, current_table, columns,
                   csv_file, csv_writer, open_files, nopened, arg, ret>>

\* lines 138, 152-153: any other statement, and an INSERT / REPLACE met while
\* the guard fails, is ignored
Ignore ==
    /\ pc = "stmt"
    /\ ~IsCreate(full_statement)
    /\ ~(IsInsert(full_statement) /\ InsertGuard(current_table, csv_writer))
    /\ pc' = "loop"
    /\ UNCHANGED <<nread, buffer, full_statement, current_table, columns,
                   csv_file, csv_writer, open_files, nopened, files, arg, ret>>

\* the end of the input without the final close()
EndOfInputNoClose ==
    /\ pc = "loop"
    /\ pc' = "done"
    /\ UNCHANGED <<nread, buffer, full_statement, current_table, columns,
                   csv_file, csv_writer, open_files, nopened, files, arg, ret>>

\* lines 157-158: the input is exhausted
EndOfInput ==
    /\ pc = "loop"
    /\ open_files' = FileClose(open_files, csv_file)
    /\ pc' = "done"
    /\ UNCHANGED <<nread, buffer, full_statement, current_table, columns,
                   csv_file, csv_writer, nopened, files, arg, ret>>

Next ==
    \/ \E raw \in Lines : NextLine(raw)
    \/ CloseOld
    \/ OpenNew
    \/ InsertRows
    \/ Ignore
    \/ EndOfInput

Spec == Init /\ [][Next]_vars

\* convert_sql_to_csv has returned or raised
Terminated == pc \in {"done"} \cup Errors

\* a step of the running function: every step of Next moves pc or consumes a
\* line, and one is possible until the function has returned or raised
Running ==
    /\ ~Terminated
    /\ pc' \in {"loop", "stmt", "create", "done"} \cup Errors
    /\ nread' \in 0..MaxLines

\* the interpreter keeps executing the function until it returns or raises
FairSpec == Spec /\ WF_<<pc, nread>>(Running)

TypeOK ==
    /\ pc \in {"loop", "stmt", "create", "done"} \cup Errors
    /\ nread \in 0..MaxLines
    /\ csv_file = NoFile \/ csv_file.id \in 1..nopened
    /\ csv_writer = csv_file

\* ------------------------------------------------- the helpers on their own

\* the concatenation of the texts of parts, separated by sep
RECURSIVE Join(_, _)
Join(parts, sep) ==
    IF parts = <<>> THEN <<>>
    ELSE IF Len(parts) = 1 THEN parts[1]
    ELSE parts[1] \o sep \o Join(Tail(parts), sep)

\* the sequences of 1..n elements of S
SeqsUpTo(S, n) == UNION { [1..k -> S] : k \in 1..n }

\* the state before the first line is read, with the call that is made next
InitCall(position, statement, argument) ==
    /\ pc = position
    /\ nread = 0
    /\ buffer = <<>>
    /\ full_statement = statement
    /\ current_table = None
    /\ columns = <<>>
    /\ csv_file = NoFile
    /\ csv_writer = NoFile
    /\ open_files = {}
    /\ nopened = 0
    /\ files = <<>>
    /\ arg = argument
    /\ ret = None

\* -- _clean_value applied to every raw field over ValChars

ValChars == {BackSlash, SQuote, DQuote, "a", "N", "U", "L", "l"}

InitClean ==
    \E val \in UNION { [1..k -> ValChars] : k \in 0..MaxValLen } :
        InitCall("call", None, val)

CallCleanValue ==
    /\ pc = "call"
    /\ ret' = _clean_value(arg)
    /\ pc' = "return"
    /\ UNCHANGED <<nread, buffer, full_statement, current_table, columns,
                   csv_file, csv_writer, open_files, nopened, files, arg>>

SpecClean == InitClean /\ [][CallCleanValue]_vars

\* -- parse_insert_values applied to INSERT statements built from literals

Lit_number == <<"1">>
    \* 1
Lit_null == <<"N","U","L","L">>
    \* NULL
Lit_string == <<"'","a","'">>
    \* 'a'
Lit_comma == <<"'","b",",","c","'">>
    \* 'b,c'
Lit_paren == <<"'","x",")","y","'">>
    \* 'x)y'
Lit_empty == <<"'","'">>
    \* ''

Lit_value == <<"'","v","a","l","u","e","'">>
    \* 'value'
Lit_escaped == <<"'","i","\\","'","s","'">>
    \* 'i\'s'

Literals == { Lit_number, Lit_null, Lit_string, Lit_comma, Lit_paren, Lit_empty,
              Lit_value, Lit_escaped }

\* INSERT INTO t VALUES (l, ...), (l, ...): tuples is a sequence of tuples,
\* each a sequence of literals
InsertStatement(tuples) ==
    <<"I","N","S","E","R","T"," ","I","N","T","O"," ","t"," ","V","A","L","U","E","S"," ">>
    \o Join([i \in DOMAIN tuples |-> <<"(">> \o Join(tuples[i], <<",">>) \o <<")">>],
            <<",">>)

InitParse ==
    \E tuples \in SeqsUpTo(SeqsUpTo(Literals, MaxFields), MaxTuples) :
        InitCall("call", InsertStatement(tuples), tuples)

CallParseInsertValues ==
    /\ pc = "call"
    /\ ret' = parse_insert_values(full_statement)
    /\ pc' = "return"
    /\ UNCHANGED <<nread, buffer, full_statement, current_table, columns,
                   csv_file, csv_writer, open_files, nopened, files, arg>>

SpecParse == InitParse /\ [][CallParseInsertValues]_vars

\* -- parse_insert_values applied to one-tuple statements whose fields are
\* -- plain literals, empty-string literals or absent

MaxRowFields == 3

Lit_empty_dq == <<"\"","\"">>
    \* ""
Lit_absent == <<" ">>
    \* nothing but whitespace between the separators

SimpleLiterals == { Lit_number, Lit_null, Lit_string, Lit_empty, Lit_empty_dq, Lit_absent }

InitTuple ==
    \E lits \in SeqsUpTo(SimpleLiterals, MaxRowFields) :
        InitCall("call", InsertStatement(<<lits>>), <<lits>>)

SpecTuple == InitTuple /\ [][CallParseInsertValues]_vars

\* -- the character scan of one row candidate, one iteration per step:
\* -- arg is value_str, nread the number of characters consumed and ret the
\* -- scan state

MaxScanLen == 4

ScanChars == {SQuote, DQuote, "(", ")", ",", "a", BackSlash}

InitScan ==
    /\ pc = "scan"
    /\ nread = 0
    /\ buffer = <<>>
    /\ full_statement = None
    /\ current_table = None
    /\ columns = <<>>
    /\ csv_file = NoFile
    /\ csv_writer = NoFile
    /\ open_files = {}
    /\ nopened = 0
    /\ files = <<>>
    /\ arg \in UNION { [1..k -> ScanChars] : k \in 0..MaxScanLen }
    /\ ret = ScanInit

\* lines 38-54: one iteration of  for char in value_str + ','
ScanStep ==
    /\ pc = "scan"
    /\ nread < Len(arg) + 1
    /\ ret' = ScanChar(ret, (arg \o <<",">>)[nread + 1])
    /\ nread' = nread + 1
    /\ UNCHANGED <<pc, buffer, full_statement, current_table, columns,
                   csv_file, csv_writer, open_files, nopened, files, arg>>

\* line 57: the for loop is over
ScanEnd ==
    /\ pc = "scan"
    /\ nread = Len(arg) + 1
    /\ pc' = "scanned"
    /\ UNCHANGED <<nread, buffer, full_statement, current_table, columns,
                   csv_file, csv_writer, open_files, nopened, files, arg, ret>>

SpecScan == InitScan /\ [][ScanStep \/ ScanEnd]_vars

\* -- the schema extraction and the header of CREATE TABLE statements built
\* -- from column fragments: the statement is the first one of the input and
\* -- the router is about to run lines 142-149 on it

Frag_int == <<"a"," ","I","N","T">>
    \* a INT
Frag_decimal == <<"b"," ","D","E","C","I","M","A","L","(","9",",","2",")">>
    \* b DECIMAL(9,2)
Frag_key == <<"K","E","Y"," ","k">>
    \* KEY k
Frag_bare == <<"c">>
    \* c
Frag_quoted == <<"BACKTICK","d","BACKTICK"," ","T","E","X","T">>
    \* `d` TEXT
Frag_unique == <<"U","N","I","Q","U","E"," ","(","a",")">>
    \* UNIQUE (a)

Fragments == { Frag_int, Frag_decimal, Frag_key, Frag_bare, Frag_quoted, Frag_unique }

\* CREATE TABLE t (f, f, ...)
CreateStatement(frags) ==
    <<"C","R","E","A","T","E"," ","T","A","B","L","E"," ","t"," ","(">> \o Join(frags, <<",", " ">>) \o <<")">>

InitSchema ==
    \E frags \in SeqsUpTo(Fragments, MaxFragments) :
        InitCall("create", CreateStatement(frags), frags)

SpecSchema == InitSchema /\ [][OpenNew]_vars

\* ------------------------------------------------------------ properties

\* the CREATE TABLE statement being processed yields no name or no column
CreateFails(stmt) ==
    parse_create_table(stmt) = None \/ get_column_names(stmt) = <<>>

\* C1: after a CREATE TABLE statement from which the name or a non-empty
\* column list cannot be recovered, no sink is open and there is no current
\* table for INSERT / REPLACE statements, and every INSERT / REPLACE statement
\* processed before the next successful CREATE TABLE writes nothing and
\* raises no error.
C1_FailedCreateIgnoresInserts ==
    [][ /\ (pc = "create" /\ CreateFails(full_statement))
            => (open_files' = {} /\ ~InsertGuard(current_table', csv_writer'))
        /\ (pc = "stmt" /\ IsInsert(full_statement)
                        /\ (current_table = None \/ columns = <<>>))
            => (files' = files /\ pc' = "loop") ]_vars

\* C2: at most one output file is open in every reachable state, and while a
\* CREATE TABLE statement is between its close and its open no file is open.
C2_AtMostOneSinkOpen ==
    /\ Cardinality(open_files) <= 1
    /\ pc = "create" => open_files = {}

\* a second sink is open after the first one was closed
C2_Witness == nopened >= 2 /\ Cardinality(open_files) = 1 /\ pc = "loop"

\* C3: on every exit of the conversion, by the end of the input or by an
\* exception, no output file is left open.
C3_EveryExitReleases == Terminated => open_files = {}

\* C8: when a successful CREATE TABLE follows an earlier successful one, the
\* old file is closed before the new one is opened; an INSERT / REPLACE
\* statement processed while the new file is open appends its rows to that
\* file, and no step changes any file other than the open one.
C8_WritesGoToNewSink ==
    [][ /\ (pc = "create" /\ nopened >= 1 /\ nopened' = nopened + 1)
            => (open_files = {} /\ open_files' = {csv_file'})
        /\ \A n \in DOMAIN files :
              (n \notin DOMAIN files' \/ files'[n] /= files[n])
                 => (n = csv_file'.name /\ csv_file' \in open_files')
        /\ (pc = "stmt" /\ nopened >= 2 /\ csv_file \in open_files
                        /\ IsInsert(full_statement))
            => LET rows == parse_insert_values(full_statement)
                   name == csv_file.name
               IN  /\ pc' \in {"loop", "OSError"}
                   /\ \E k \in 0..Len(rows) :
                        /\ files'[name] = files[name] \o SubSeq(rows, 1, k)
                        /\ pc' = "loop" => k = Len(rows) ]_vars

\* rows were appended to the second table's file while the first table's
\* file exists
C8_Witness ==
    /\ pc = "loop"
    /\ nopened = 2
    /\ csv_file \in open_files
    /\ Len(files[csv_file.name]) >= 2
    /\ \E n \in DOMAIN files : n /= csv_file.name

\* C9: an INSERT / REPLACE statement processed before the first successful
\* CREATE TABLE creates no file, writes nothing, raises no error and leaves
\* the router state unchanged.
C9_InsertBeforeCreateIgnored ==
    [][ (pc = "stmt" /\ nopened = 0 /\ IsInsert(full_statement))
          => /\ pc' = "loop"
             /\ files = <<>> /\ files' = <<>>
             /\ open_files' = {}
             /\ UNCHANGED <<current_table, columns, csv_file, csv_writer>> ]_vars

\* an INSERT was processed with a table name recorded but no file ever opened
C9_Witness ==
    /\ pc = "loop"
    /\ nopened = 0
    /\ current_table /= None
    /\ full_statement /= None
    /\ IsInsert(full_statement)

\* C10: the conversion terminates, it reads the lines forward one at a time,
\* and when it ends without an exception no file is open; the final close
\* changes nothing when no file was ever opened.
C10_TerminatesWithNoSinkOpen ==
    /\ <>Terminated
    /\ [](pc = "done" => open_files = {})
    /\ [][ /\ nread' \in {nread, nread + 1}
           /\ (pc' = "done" /\ csv_file = NoFile)
                => (open_files' = open_files /\ files' = files) ]_vars

\* the input ended after a file had been opened
C10_Witness == pc = "done" /\ nopened >= 1 /\ nread >= 2

\* C4: for a well-formed INSERT INTO t VALUES (...), ..., (...) statement whose
\* tuples hold literals, parse_insert_values returns as many rows as the
\* statement has tuples.
C4_OneRowPerTuple == pc = "return" => Len(ret) = Len(arg)

\* the fragments of a CREATE TABLE statement that the keyword rule keeps
NonFiltered(stmt) ==
    { i \in DOMAIN ColumnDefs(stmt) : ~IsConstraint(ColumnDefs(stmt)[i]) }

\* a header was written by the step: the statement opened a sink
HeaderWritten == pc = "create" /\ pc' = "loop" /\ csv_file' \in open_files'

\* C5 as stated: the header of the file a CREATE TABLE statement opens has as
\* many fields as the statement has fragments that the keyword rule keeps.
C5_HeaderCountsNonFiltered ==
    [][ HeaderWritten
          => Len(files'[csv_file'.name][1])
               = Cardinality(NonFiltered(full_statement)) ]_vars

\* C5 amended: the header has as many fields as the statement has fragments
\* that the keyword rule keeps and that match the column pattern (optional
\* quote, word, optional quote, whitespace, word); a kept fragment that does
\* not match contributes no field.
C5_HeaderCountsMatchedColumns ==
    [][ HeaderWritten
          => Len(files'[csv_file'.name][1])
               = Cardinality({ i \in NonFiltered(full_statement) :
                     ColumnMatch(ColumnDefs(full_statement)[i]) /= None }) ]_vars

\* a sink was opened by a statement with a kept fragment that gives no column
C5_Witness ==
    /\ pc = "loop"
    /\ csv_file \in open_files
    /\ Len(files[csv_file.name][1]) >= 2
    /\ Len(files[csv_file.name][1]) < Cardinality(NonFiltered(full_statement))

\* one left-to-right pass that replaces each backslash followed by a
\* backslash or a quote character by that character
RECURSIVE UnescapeOnePass(_, _)
UnescapeOnePass(s, i) ==
    IF i > Len(s) THEN <<>>
    ELSE IF s[i] = BackSlash /\ i < Len(s) /\ s[i + 1] \in {BackSlash, SQuote, DQuote}
         THEN <<s[i + 1]>> \o UnescapeOnePass(s, i + 2)
         ELSE <<s[i]>> \o UnescapeOnePass(s, i + 1)

\* C6: the three substitutions applied in sequence give the result of one
\* left-to-right unescape of the quote-stripped field: the backslash that an
\* escaped backslash produces never escapes the character after it.
C6_SequentialEqualsOnePass ==
    (pc = "return" /\ Upper(arg) /= S_NULL)
        => ret = UnescapeOnePass(StripQuotes(arg), 1)

\* the field has no comma, quote or backslash
Plain(val) == Range(val) \cap {",", SQuote, DQuote, BackSlash} = {}

\* C7 as stated: a field with no comma, quote or backslash is returned
\* unchanged by _clean_value.
C7_PlainFieldUnchanged == (pc = "return" /\ Plain(arg)) => ret = arg

\* C7 amended: a field with no comma, quote or backslash that is not the
\* word NULL in any letter case is returned unchanged by _clean_value.
C7_PlainNonNullFieldUnchanged ==
    (pc = "return" /\ Plain(arg) /\ Upper(arg) /= S_NULL) => ret = arg

\* a plain field of the length of NULL that is not NULL was returned
C7_Witness ==
    /\ pc = "return"
    /\ Plain(arg)
    /\ Len(arg) = 4
    /\ Upper(arg) /= S_NULL
    /\ ret = arg

C12_RegionAfterFirstVALUES ==
    (pc = "return" /\ Contains(full_statement, S_VALUES))
        => ValuesPart(full_statement) = Strip(SplitOnceLast(full_statement, S_VALUES))

\* the tuple of the statement with each empty-string literal made absent
WithoutEmptyStrings(lits) ==
    [i \in DOMAIN lits |->
        IF lits[i] \in {Lit_empty, Lit_empty_dq} THEN Lit_absent ELSE lits[i]]

\* C13 as stated: the row of a tuple with an empty-string literal is the row
\* of the same tuple with that field absent.
C13_EmptyStringLikeAbsent ==
    pc = "return"
        => ret = parse_insert_values(InsertStatement(<<WithoutEmptyStrings(arg[1])>>))

\* the value a plain or empty-string literal stands for
LiteralValue(lit) ==
    IF lit = Lit_number THEN <<"1">>
    ELSE IF lit = Lit_string THEN <<"a">>
    ELSE <<>>

\* one value per field of the tuple that is not absent
PresentValues(lits) ==
    LET present == SelectSeq(lits, LAMBDA l : l /= Lit_absent)
    IN  [i \in DOMAIN present |-> LiteralValue(present[i])]

\* C13 amended: only an absent field is dropped; an empty-string literal is
\* kept as an empty field, so the row has one field per field of the tuple
\* that is not absent (and there is no row when every field is absent).
C13_EmptyStringKept ==
    pc = "return"
        => ret = IF PresentValues(arg[1]) = <<>> THEN <<>>
                 ELSE <<PresentValues(arg[1])>>

\* a tuple with an empty-string literal and an absent field gave a row with
\* the empty field and without the absent one
C13_Witness ==
    /\ pc = "return"
    /\ Len(arg[1]) = 3
    /\ arg[1][1] = Lit_empty /\ arg[1][2] = Lit_absent /\ arg[1][3] = Lit_number
    /\ ret = << << <<>>, <<"1">> >> >>

\* the line is empty or starts with '--', '/*' or 'SET ' once trimmed
SkippedLine(line) ==
    \/ Len(line) = 0
    \/ Len(line) >= 2 /\ SubSeq(line, 1, 2) \in { <<"-", "-">>, <<"/", "*">> }
    \/ Len(line) >= 4 /\ SubSeq(line, 1, 4) = <<"S", "E", "T", " ">>

\* C14: a statement is emitted exactly when a non-skipped line is appended
\* and the trimmed buffer ends with ';'; the emitted statement is the buffer
\* joined with the line by a space, trimmed, without the trailing ';', and
\* the buffer restarts empty; a skipped line leaves the buffer as it is; no
\* other step emits or touches the buffer, the end of the input included.
C14_AssemblerOutput ==
    [][ IF nread' = nread + 1
        THEN \E raw \in Lines :
                LET line   == Strip(raw)
                    joined == Strip(buffer \o <<" ">> \o line)
                IN  IF SkippedLine(line)
                    THEN /\ buffer' = buffer
                         /\ pc' = "loop"
                         /\ full_statement' = full_statement
                    ELSE IF joined[Len(joined)] = ";"
                    THEN /\ pc' = "stmt"
                         /\ full_statement' = RStrip(joined, {";"})
                         /\ full_statement'[Len(full_statement')] /= ";"
                         /\ buffer' = <<>>
                    ELSE /\ pc' = "loop"
                         /\ Strip(buffer') = joined
                         /\ full_statement' = full_statement
        ELSE /\ buffer' = buffer
             /\ full_statement' = full_statement
             /\ pc' /= "stmt" ]_vars

\* a two-line statement was emitted as one statement, joined by a space
C14_Witness ==
    /\ pc = "stmt"
    /\ nread = 3
    /\ buffer = <<>>
    /\ full_statement = Strip(L_insert_u_head \o <<" ">> \o RStrip(L_values_tail, {";"}))

\* C15: in the scan of a row candidate a field is flushed at a character
\* exactly when it is a comma met outside quotes at paren_level 0; in_quotes
\* holds exactly when quote_char is set; inside a quoted span the other quote
\* character changes neither; parentheses move paren_level only outside quotes.
C15_FlushOnlyAtTopLevelComma ==
    /\ [](pc = "scan" => (ret.in_quotes <=> ret.quote_char /= NoChar))
    /\ [][ nread' = nread + 1 =>
            LET char    == (arg \o <<",">>)[nread + 1]
                flushes == char = "," /\ ~ret.in_quotes /\ ret.paren_level = 0
            IN  /\ IF flushes
                   THEN /\ ret'.row = ret.row \o <<Strip(ret.current)>>
                        /\ ret'.current = <<>>
                   ELSE /\ ret'.row = ret.row
                        /\ ret'.current = ret.current \o <<char>>
                /\ (char \in {SQuote, DQuote} /\ ret.in_quotes /\ char /= ret.quote_char)
                      => (ret'.in_quotes /\ ret'.quote_char = ret.quote_char)
                /\ (char \in {SQuote, DQuote} /\ ret.in_quotes /\ char = ret.quote_char)
                      => ~ret'.in_quotes
                /\ (char \in {SQuote, DQuote} /\ ~ret.in_quotes)
                      => (ret'.in_quotes /\ ret'.quote_char = char)
                /\ char \notin {SQuote, DQuote}
                      => (ret'.in_quotes = ret.in_quotes /\ ret'.quote_char = ret.quote_char)
                /\ ret'.paren_level =
                      IF ret.in_quotes THEN ret.paren_level
                      ELSE IF char = "(" THEN ret.paren_level + 1
                      ELSE IF char = ")" THEN ret.paren_level - 1
                      ELSE ret.paren_level ]_vars

\* after a flushed field, a double quote was met inside a single-quoted span
\* and the span is still open
C15_Witness ==
    /\ pc = "scan"
    /\ arg = <<"a", ",", SQuote, DQuote>>
    /\ nread = 4
    /\ ret.row = << <<"a">> >>
    /\ ret.in_quotes /\ ret.quote_char = SQuote
    /\ ret.current = <<SQuote, DQuote>>

\* value_str is a candidate that the group matching yields for the values
\* part  ( value_str )
IsRowCandidate(value_str) == FindAll(<<"(">> \o value_str \o <<")">>) = <<value_str>>

\* C16: for every row candidate of the group matching, paren_level is never
\* negative during the scan and the trailing comma flushes the last field:
\* the scan ends outside quotes, at paren_level 0, with an empty accumulator.
C16_TrailingCommaFlushes ==
    IsRowCandidate(arg) =>
        /\ pc \in {"scan", "scanned"} => ret.paren_level >= 0
        /\ pc = "scanned" =>
              /\ ~ret.in_quotes
              /\ ret.paren_level = 0
              /\ ret.current = <<>>

\* the quoted string literals with plain content, a comma or an escaped quote
QuotedLiterals == { Lit_string, Lit_comma, Lit_escaped }

\* the content a quoted string literal stands for
UnescapedContent(lit) ==
    IF lit = Lit_string THEN <<"a">>
    ELSE IF lit = Lit_comma THEN <<"b", ",", "c">>
    ELSE <<"i", SQuote, "s">>

\* C17: for a statement whose tuples hold quoted string literals, with commas
\* or backslash-escaped quotes inside, parse_insert_values returns one row
\* per tuple with one field per literal, equal to its unescaped content.
C17_EscapedQuoteStaysInsideLiteral ==
    (/\ pc = "return"
     /\ \A i \in DOMAIN arg : \A j \in DOMAIN arg[i] : arg[i][j] \in QuotedLiterals)
        => ret = [i \in DOMAIN arg |->
                    [j \in DOMAIN arg[i] |-> UnescapedContent(arg[i][j])]]

\* the table an INSERT INTO / REPLACE INTO statement names
TargetTable(stmt) ==
    IF StartsWith(Upper(stmt), S_INSERT_INTO)
    THEN NameAfter(stmt, Len(S_INSERT_INTO) + 1)
    ELSE NameAfter(stmt, Len(S_REPLACE_INTO) + 1)

\* C18: the rows of an INSERT INTO / REPLACE INTO statement are added only to
\* the file of the table that the statement names.
C18_RowsGoToTargetTable ==
    [][ (pc = "stmt" /\ files' /= files) =>
            \A n \in DOMAIN files' :
                (n \notin DOMAIN files \/ files'[n] /= files[n])
                    => n = TargetTable(full_statement) ]_vars

\* s is an initial part of t
IsPrefix(s, t) == Len(s) <= Len(t) /\ SubSeq(t, 1, Len(s)) = s

\* C19: what has been written to a table's file stays there: no step that
\* does not raise removes a file or a row of a file, a second successful
\* CREATE TABLE of the same table included.
C19_WrittenRowsAreKept ==
    [][ pc' \notin Errors =>
            \A n \in DOMAIN files :
                /\ n \in DOMAIN files'
                /\ IsPrefix(files[n], files'[n]) ]_vars

====
